---- MODULE Spec2Model ----
(***************************************************************************)
(* Model of PingpongBuffer<N, T> (src/src/lib.rs): two fixed slots of N    *)
(* elements, a selector of the active slot, a write index into the active  *)
(* slot and a flag telling that the reserve slot holds an unread batch.    *)
(* Every public method is one action; the last call (method, argument,     *)
(* result) is kept in op / arg / ret so that results can be stated.        *)
(***************************************************************************)
EXTENDS Integers, Sequences, FiniteSets, TLC

\* ---- bounds -------------------------------------------------------------
\* slot capacity (the const generic N)
N == 2
\* number of distinct non-default element values
NumValues == 2

\* the longest input of one append call: one element more than both slots
MaxLen == 2 * N + 1
Values == 1..NumValues

\* T::default()
DefaultT == 0

VARIABLES buffer_a, buffer_b, active_index, active_buffer, reserve_capacity,
          op, arg, ret, written, batch,
          toggles, retry, appended, fulls, queue

vars == <<buffer_a, buffer_b, active_index, active_buffer, reserve_capacity,
          op, arg, ret, written, batch,
          toggles, retry, appended, fulls, queue>>

\* ---- helpers ------------------------------------------------------------
\* core::cmp::min
Min(a, b) == IF a < b THEN a ELSE b

\* [T::default(); N]
DefaultArray == [i \in 1..N |-> DefaultT]

\* (variant) toggle that returns the same slot
toggle_same(b) == b

\* Buffer::toggle
toggle(b) == IF b = "A" THEN "B" ELSE "A"

\* dst[from .. from + len(src)].copy_from_slice(src), from is 0-based
copy_from_slice(dst, from, src) ==
  [i \in 1..Len(dst) |->
     IF i > from /\ i <= from + Len(src) THEN src[i - from] ELSE dst[i]]

\* the fields of self as one record
Self == [buffer_a |-> buffer_a, buffer_b |-> buffer_b,
         active_index |-> active_index, active_buffer |-> active_buffer,
         reserve_capacity |-> reserve_capacity]

\* match self.active_buffer { A => &self.buffer_a, B => &self.buffer_b }
ActiveOf(s) == IF s.active_buffer = "A" THEN s.buffer_a ELSE s.buffer_b

\* the slot that is not selected (read's match arms)
ReserveOf(s) == IF s.active_buffer = "A" THEN s.buffer_b ELSE s.buffer_a

\* (variant) the write always lands in buffer_a, whichever slot is active
WithActive_alwaysA(s, buf) == [s EXCEPT !.buffer_a = buf]

\* a write through the &mut reference to the active slot
WithActive(s, buf) ==
  IF s.active_buffer = "A" THEN [s EXCEPT !.buffer_a = buf]
                           ELSE [s EXCEPT !.buffer_b = buf]

\* results
Result(tag, data, count) == [tag |-> tag, data |-> data, count |-> count]
OkFull == Result("Ok_Full", <<>>, 0)
OkNotFull == Result("Ok_NotFull", <<>>, 0)
ErrOverflow == Result("Err_Overflow", <<>>, 0)
ErrReserveFull == Result("Err_ReserveFull", <<>>, 0)
NoResult == Result("Unit", <<>>, 0)

\* ---- append -------------------------------------------------------------
\* (variant) the whole input is counted as transferred, without the min
Transferred_noMin(s, data) == Len(data)

\* let transferred = core::cmp::min(data.len(), capacity)
Transferred(s, data) == Min(Len(data), N - s.active_index)

\* (variant) the copy starts at offset 0 instead of at active_index
FillActive_fromStart(s, data) ==
  LET transferred == Transferred(s, data)
  IN  [WithActive(s, copy_from_slice(ActiveOf(s), 0,
                                     SubSeq(data, 1, transferred)))
         EXCEPT !.active_index = @ + transferred]

\* (variant) the elements are copied but active_index is not advanced
FillActive_noIndex(s, data) ==
  WithActive(s, copy_from_slice(ActiveOf(s), s.active_index,
                                SubSeq(data, 1, Transferred(s, data))))

\* the copy into the active slot and the index increment (lines 155-171)
FillActive(s, data) ==
  LET transferred == Transferred(s, data)
  IN  [WithActive(s, copy_from_slice(ActiveOf(s), s.active_index,
                                     SubSeq(data, 1, transferred)))
         EXCEPT !.active_index = @ + transferred]

\* (variant) the unread reserve is not checked before the swap
ReserveBlocks_never(s) == FALSE

\* if let BufferCapacity::Full = self.reserve_capacity (line 175)
ReserveBlocks(s) == s.reserve_capacity = "Full"

\* (variant) the swap does not mark the reserve full
Swap_noFlag(s) == [s EXCEPT !.active_index = 0,
                            !.active_buffer = toggle(@)]

\* (variant) the swap does not reset active_index
Swap_keepsIndex(s) == [s EXCEPT !.reserve_capacity = "Full",
                                !.active_buffer = toggle(@)]

\* lines 180-185: mark the reserve full, reset the index, toggle
Swap(s) == [s EXCEPT !.reserve_capacity = "Full",
                     !.active_index = 0,
                     !.active_buffer = toggle(@)]

\* (variant) off by one: a remainder of exactly N already overflows
RemainderOverflows_atN(remainder) == remainder >= N

\* (variant) the length of the remainder is not checked
RemainderOverflows_never(remainder) == FALSE

\* if remainder > N (line 195)
RemainderOverflows(remainder) == remainder > N

\* (variant) the remainder is copied but active_index is not advanced
FillRemainder_noIndex(s, data, transferred) ==
  WithActive(s, copy_from_slice(ActiveOf(s), 0,
                                SubSeq(data, transferred + 1, Len(data))))

\* (variant) the remainder is taken from the start of the input again
FillRemainder_fromDataStart(s, data, transferred) ==
  LET remainder == Len(data) - transferred
  IN  [WithActive(s, copy_from_slice(ActiveOf(s), 0,
                                     SubSeq(data, 1, remainder)))
         EXCEPT !.active_index = @ + remainder]

\* (variant) a remainder that fills the new active slot toggles once more,
\* as an append that loops over its input would
FillRemainder_togglesAgain(s, data, transferred) ==
  LET remainder == Len(data) - transferred
      filled == [WithActive(s, copy_from_slice(ActiveOf(s), 0,
                                SubSeq(data, transferred + 1, Len(data))))
                   EXCEPT !.active_index = @ + remainder]
  IN  IF remainder = N
      THEN [filled EXCEPT !.active_index = 0, !.active_buffer = toggle(@)]
      ELSE filled

\* lines 198-199: copy the remainder into the new active slot
FillRemainder(s, data, transferred) ==
  LET remainder == Len(data) - transferred
  IN  [WithActive(s, copy_from_slice(ActiveOf(s), 0,
                                     SubSeq(data, transferred + 1, Len(data))))
         EXCEPT !.active_index = @ + remainder]

\* (variant) on overflow the first N elements of the remainder are still
\* copied into the new active slot
OnOverflow_fills(s, data, transferred) ==
  [WithActive(s, SubSeq(data, transferred + 1, transferred + N))
     EXCEPT !.active_index = N]

\* line 196: return Err(Overflow) right after the swap, nothing is copied
OnOverflow(s, data, transferred) == s

\* PingpongBuffer::append: the new self and the result
append(s, data) ==
  LET transferred == Transferred(s, data)
      s1 == FillActive(s, data)
  IN  IF s1.active_index = N
      THEN IF ReserveBlocks(s1)
           THEN [self |-> s1, ret |-> ErrReserveFull]
           ELSE LET s2 == Swap(s1)
                IN  IF transferred # Len(data)
                    THEN IF RemainderOverflows(Len(data) - transferred)
                         THEN [self |-> OnOverflow(s2, data, transferred),
                               ret |-> ErrOverflow]
                         ELSE [self |-> FillRemainder(s2, data, transferred),
                               ret |-> OkFull]
                    ELSE [self |-> s2, ret |-> OkFull]
      ELSE [self |-> s1, ret |-> OkNotFull]

\* history of append: the elements written into the active slot since the
\* last swap, flush or clear, and the batch completed by the last swap
appendWritten(s, data, r) ==
  LET transferred == Transferred(s, data)
  IN  IF r.self.active_buffer # s.active_buffer
      THEN IF r.ret.tag = "Ok_Full"
           THEN SubSeq(data, transferred + 1, Len(data))
           ELSE <<>>
      ELSE written \o SubSeq(data, 1, transferred)

appendBatch(s, data, r) ==
  IF r.self.active_buffer # s.active_buffer
  THEN written \o SubSeq(data, 1, Transferred(s, data))
  ELSE batch

\* ---- read, flush --------------------------------------------------------
\* (variant) read hands out the batch but leaves the reserve marked full
read_keepsFull(s) ==
  IF s.reserve_capacity = "Full"
  THEN [self |-> s, ret |-> Result("Some", ReserveOf(s), 0)]
  ELSE [self |-> s, ret |-> Result("None", <<>>, 0)]

\* (variant) the match arms are exchanged: read hands out the active slot
read_activeSlot(s) ==
  IF s.reserve_capacity = "Full"
  THEN [self |-> [s EXCEPT !.reserve_capacity = "NotFull"],
        ret |-> Result("Some", ActiveOf(s), 0)]
  ELSE [self |-> s, ret |-> Result("None", <<>>, 0)]

\* PingpongBuffer::read
read(s) ==
  IF s.reserve_capacity = "Full"
  THEN [self |-> [s EXCEPT !.reserve_capacity = "NotFull"],
        ret |-> Result("Some", ReserveOf(s), 0)]
  ELSE [self |-> s, ret |-> Result("None", <<>>, 0)]

\* (variant) flush hands out the prefix but does not reset active_index
flush_keepsIndex(s) ==
  LET remainder == s.active_index
      data == copy_from_slice(DefaultArray, 0, SubSeq(ActiveOf(s), 1, remainder))
  IN  [self |-> s, ret |-> Result("Flushed", data, remainder)]

\* (variant) flush hands out the whole active slot, stale elements included
flush_wholeSlot(s) ==
  [self |-> [s EXCEPT !.active_index = 0],
   ret |-> Result("Flushed", ActiveOf(s), s.active_index)]

\* PingpongBuffer::flush
flush(s) ==
  LET remainder == s.active_index
      data == copy_from_slice(DefaultArray, 0, SubSeq(ActiveOf(s), 1, remainder))
  IN  [self |-> [s EXCEPT !.active_index = 0],
       ret |-> Result("Flushed", data, remainder)]

\* ---- inputs -------------------------------------------------------------
\* an input slice: len elements counting up cyclically from start
Data(len, start) == [i \in 1..len |-> ((start + i - 2) % NumValues) + 1]

Inputs == {Data(len, start) : len \in 0..MaxLen, start \in Values}

\* ---- the state machine --------------------------------------------------
Store(s) ==
  /\ buffer_a' = s.buffer_a
  /\ buffer_b' = s.buffer_b
  /\ active_index' = s.active_index
  /\ active_buffer' = s.active_buffer
  /\ reserve_capacity' = s.reserve_capacity

\* Default::default: zeroed slots, index 0, slot A active, reserve not full
Constructed ==
  [buffer_a |-> DefaultArray, buffer_b |-> DefaultArray,
   active_index |-> 0, active_buffer |-> "A",
   reserve_capacity |-> "NotFull"]

\* (variant) clear forgets to mark the reserve not full
clear_keepsReserve(s) ==
  [Constructed EXCEPT !.reserve_capacity = s.reserve_capacity]

\* PingpongBuffer::clear
clear(s) == Constructed

\* the queries
is_empty(s) == s.active_index = 0
is_half_full(s) == s.active_index >= N \div 2
is_reserve_full(s) == s.reserve_capacity = "Full"
position(s) == s.active_index

\* 1 when the selector differs between two stages of a call, else 0
Flips(s, t) == IF s.active_buffer # t.active_buffer THEN 1 ELSE 0

\* how many times one append call changes the selector: counted over the
\* stages of the call, before and after the copy (lines 155-171), the swap
\* (lines 180-185) and the copy of the remainder (lines 186-200)
appendToggles(s, data, r) ==
  LET s1 == FillActive(s, data)
      s2 == Swap(s1)
  IN  IF s1.active_index = N /\ ~ReserveBlocks(s1)
      THEN Flips(s, s1) + Flips(s1, s2) + Flips(s2, r.self)
      ELSE Flips(s, s1) + Flips(s1, r.self)

\* the slice accesses of append stay within the slots: no underflow in
\* buff.len() - active_index, the first copy ends at or before N, and the
\* copy of the remainder, when the call gets to it (the index is N after
\* the first copy, the reserve is not full, the remainder is not empty and
\* does not overflow), is of at most N elements
appendInBounds(s, data) ==
  LET transferred == Transferred(s, data)
      remainder == Len(data) - transferred
  IN  /\ s.active_index <= N
      /\ transferred >= 0 /\ transferred <= Len(data)
      /\ s.active_index + transferred <= N
      /\ (/\ s.active_index + transferred = N /\ ~ReserveBlocks(s)
          /\ transferred # Len(data) /\ ~RemainderOverflows(remainder))
           => remainder <= N

\* data[0..remainder] and buff[0..remainder] of flush lie within N elements
flushInBounds(s) == s.active_index >= 0 /\ s.active_index <= N

\* the input elements one append call copies into the slots: the transferred
\* ones, and the remainder unless the call fails before copying it
appendStored(s, data, r) ==
  LET transferred == Transferred(s, data)
  IN  SubSeq(data, 1, transferred)
        \o (IF r.ret.tag = "Ok_Full"
            THEN SubSeq(data, transferred + 1, Len(data))
            ELSE <<>>)

\* a sequence without its first k elements: what a drain in order leaves
Drop(q, k) == SubSeq(q, k + 1, Len(q))

\* a sequence without its last k elements: what a flush leaves that hands
\* out the active slot while an older batch still waits in the reserve
DropLast(q, k) == SubSeq(q, 1, Len(q) - k)

\* history kept over an append or push call:
\*   toggles      toggle calls made by the last call
\*   retry        "failed" after a ReserveFull, "drained" once read was called
\*   appended     elements passed to append/push since construction, while no
\*                other method was called and no more than N were passed (else -1)
\*   fulls        Ok(Full) results among those calls
\*   queue        elements copied in by append and not yet handed out,
\*                oldest first
WriteHistory(s, data, r) ==
  /\ written' = appendWritten(s, data, r)
  /\ batch' = appendBatch(s, data, r)
  /\ toggles' = appendToggles(s, data, r)
  /\ retry' = IF r.ret.tag = "Err_ReserveFull" THEN "failed" ELSE "none"
  /\ appended' = IF appended = -1 \/ appended + Len(data) > N
                 THEN -1 ELSE appended + Len(data)
  /\ fulls' = IF appended = -1 \/ appended + Len(data) > N THEN 0
              ELSE IF r.ret.tag = "Ok_Full" THEN Min(fulls + 1, 2) ELSE fulls
  /\ queue' = queue \o appendStored(s, data, r)

\* PingpongBuffer::default / new
Init ==
  /\ buffer_a = Constructed.buffer_a
  /\ buffer_b = Constructed.buffer_b
  /\ active_index = Constructed.active_index
  /\ active_buffer = Constructed.active_buffer
  /\ reserve_capacity = Constructed.reserve_capacity
  /\ op = "new"
  /\ arg = <<>>
  /\ ret = NoResult
  /\ written = <<>>
  /\ batch = <<>>
  /\ toggles = 0
  /\ retry = "none"
  /\ appended = 0
  /\ fulls = 0
  /\ queue = <<>>

AppendCall ==
  \E data \in Inputs :
    LET r == append(Self, data)
    IN  /\ Store(r.self)
        /\ op' = "append"
        /\ arg' = data
        /\ ret' = r.ret
        /\ WriteHistory(Self, data, r)

\* push(element) is append(&[element])
PushCall ==
  \E element \in Values :
    LET r == append(Self, <<element>>)
    IN  /\ Store(r.self)
        /\ op' = "push"
        /\ arg' = <<element>>
        /\ ret' = r.ret
        /\ WriteHistory(Self, <<element>>, r)

ReadCall ==
  LET r == read(Self)
  IN  /\ Store(r.self)
      /\ op' = "read"
      /\ arg' = <<>>
      /\ ret' = r.ret
      /\ toggles' = 0
      /\ retry' = IF retry = "none" THEN "none" ELSE "drained"
      /\ appended' = -1
      /\ fulls' = 0
      /\ queue' = IF r.ret.tag = "Some" THEN Drop(queue, N) ELSE queue
      /\ UNCHANGED <<written, batch>>

FlushCall ==
  LET r == flush(Self)
  IN  /\ Store(r.self)
      /\ op' = "flush"
      /\ arg' = <<>>
      /\ ret' = r.ret
      /\ written' = <<>>
      /\ toggles' = 0
      /\ retry' = "none"
      /\ appended' = -1
      /\ fulls' = 0
      /\ queue' = IF reserve_capacity = "Full"
                  THEN DropLast(queue, r.ret.count)
                  ELSE Drop(queue, r.ret.count)
      /\ UNCHANGED batch

ClearCall ==
  /\ Store(clear(Self))
  /\ op' = "clear"
  /\ arg' = <<>>
  /\ ret' = NoResult
  /\ written' = <<>>
  /\ batch' = <<>>
  /\ toggles' = 0
  /\ retry' = "none"
  /\ appended' = -1
  /\ fulls' = 0
  /\ queue' = <<>>

Next == AppendCall \/ PushCall \/ ReadCall \/ FlushCall \/ ClearCall

Spec == Init /\ [][Next]_vars

\* the calls of a consumer that never clears and flushes only when no batch
\* waits in the reserve
FlushInOrder == reserve_capacity # "Full" /\ FlushCall

NextInOrder == AppendCall \/ PushCall \/ ReadCall \/ FlushInOrder

SpecInOrder == Init /\ [][NextInOrder]_vars

\* ---- properties ---------------------------------------------------------
\* the slot being written and the other one, in the current state
Active == ActiveOf(Self)
Reserve == ReserveOf(Self)

\* the write index after the copy step of an append of the next call's input
MidIndex == active_index + Min(Len(arg'), N - active_index)

IsWrite(o) == o \in {"append", "push"}

\* C1: whenever the reserve is marked full, the non-active slot holds exactly
\* the N elements written into it before the last swap, in append order, and
\* no append, push or flush made while the reserve is full changes it.
C1_Step ==
  /\ reserve_capacity' = "Full" => Len(batch') = N /\ Reserve' = batch'
  /\ (reserve_capacity = "Full" /\ op' \in {"append", "push", "flush"})
       => Reserve' = Reserve

C1_ReserveKept == [][C1_Step]_vars

\* an append that wrote into the active slot while the reserve was full
C1_Witness ==
  /\ op = "append" /\ Len(arg) > 0
  /\ ret.tag = "Err_ReserveFull"
  /\ reserve_capacity = "Full" /\ Reserve = batch

\* C2: read returns None when the reserve is not full; when it is full, read
\* returns the N elements of the completed batch and marks the reserve not
\* full, and a read right after a read returns None.
C2_Step ==
  op' = "read" =>
    /\ reserve_capacity = "NotFull" => ret'.tag = "None"
    /\ reserve_capacity = "Full" =>
         /\ ret'.tag = "Some" /\ ret'.data = batch /\ Len(ret'.data) = N
         /\ reserve_capacity' = "NotFull"
    /\ op = "read" => ret'.tag = "None"

C2_Read == [][C2_Step]_vars

\* a read that handed out a batch of appended elements
C2_Witness ==
  /\ op = "read" /\ ret.tag = "Some"
  /\ \A i \in 1..N : ret.data[i] \in Values
  /\ reserve_capacity = "NotFull"

\* C3: the write index stays within 0..N after every call, failed ones too.
C3_IndexInRange == active_index >= 0 /\ active_index <= N

\* a failed append of more than fits that left the index at its upper end
C3_Witness ==
  /\ IsWrite(op) /\ ret.tag \in {"Err_ReserveFull"}
  /\ Len(arg) > N
  /\ active_index = N

\* C4: the selector changes (clear aside) only in an append or push whose
\* copy step brings the write index to N while the reserve is not full; when
\* the index gets to N with the reserve full the call fails and the selector
\* stays; read and flush never change the selector.
C4_Step ==
  /\ (active_buffer' # active_buffer /\ op' # "clear")
       => IsWrite(op') /\ MidIndex = N /\ reserve_capacity = "NotFull"
  /\ (IsWrite(op') /\ MidIndex = N /\ reserve_capacity = "Full")
       => ret'.tag = "Err_ReserveFull" /\ active_buffer' = active_buffer
  /\ op' \in {"read", "flush"} => active_buffer' = active_buffer

C4_SwapOnlyWhenFull == [][C4_Step]_vars

\* a push that swapped the slots
C4_Witness ==
  /\ op = "push" /\ ret.tag = "Ok_Full"
  /\ active_buffer = "B" /\ active_index = 0

\* C5: an append that fills the active slot while the reserve is full
\* returns ReserveFull and changes neither the reserve slot, the elements
\* already written in the active slot, the selector nor the reserve flag,
\* and leaves the write index at N.
C5_Step ==
  (op' = "append" /\ MidIndex = N /\ reserve_capacity = "Full") =>
    /\ ret'.tag = "Err_ReserveFull"
    /\ Reserve' = Reserve
    /\ \A i \in 1..active_index : Active'[i] = Active[i]
    /\ active_buffer' = active_buffer
    /\ reserve_capacity' = "Full"
    /\ active_index' = N

C5_ReserveFullKeepsState == [][C5_Step]_vars

\* a ReserveFull append onto a partly written active slot
C5_Witness ==
  /\ op = "append" /\ ret.tag = "Err_ReserveFull"
  /\ Len(arg) > 0 /\ Len(arg) < N
  /\ active_index = N /\ written = SubSeq(Active, 1, N)

\* C6 as stated: every append of more than N and at most 2N elements returns
\* Ok(Full) and leaves the write index at len - N.
C6_Step_Stated ==
  (op' = "append" /\ Len(arg') > N /\ Len(arg') <= 2 * N) =>
    ret'.tag = "Ok_Full" /\ active_index' = Len(arg') - N

C6_Stated == [][C6_Step_Stated]_vars

\* C6, amended: an append of more than N and at most 2N elements made with
\* the write index at 0 and the reserve not full returns Ok(Full) and
\* leaves the write index at len - N.
C6_Step ==
  (/\ op' = "append" /\ Len(arg') > N /\ Len(arg') <= 2 * N
   /\ active_index = 0 /\ reserve_capacity = "NotFull") =>
    ret'.tag = "Ok_Full" /\ active_index' = Len(arg') - N

C6_FromEmptyActive == [][C6_Step]_vars

\* an append of 2N elements that filled both slots
C6_Witness ==
  /\ op = "append" /\ Len(arg) = 2 * N
  /\ ret.tag = "Ok_Full"
  /\ active_index = N /\ batch \o written = arg

\* C7 as stated: every append of more than 2N elements returns Overflow and
\* leaves the first N elements of the input in the reserve, marked full.
C7_Step_Stated ==
  (op' = "append" /\ Len(arg') > 2 * N) =>
    /\ ret'.tag = "Err_Overflow"
    /\ reserve_capacity' = "Full"
    /\ Reserve' = SubSeq(arg', 1, N)

C7_Stated == [][C7_Step_Stated]_vars

\* C7, amended: an append of more than 2N elements made with the write index
\* at 0 and the reserve not full returns Overflow and leaves the first N
\* elements of the input in the reserve, marked full.
C7_Step ==
  (/\ op' = "append" /\ Len(arg') > 2 * N
   /\ active_index = 0 /\ reserve_capacity = "NotFull") =>
    /\ ret'.tag = "Err_Overflow"
    /\ reserve_capacity' = "Full"
    /\ Reserve' = SubSeq(arg', 1, N)

C7_OverflowFromEmptyActive == [][C7_Step]_vars

\* an overflowing append whose first N elements are the reserve
C7_Witness ==
  /\ op = "append" /\ Len(arg) > 2 * N
  /\ ret.tag = "Err_Overflow"
  /\ reserve_capacity = "Full" /\ Reserve = SubSeq(arg, 1, N)

\* C8 as stated: an append of at most 2N elements never returns Overflow.
C8_Step_Stated ==
  (op' = "append" /\ Len(arg') <= 2 * N) => ret'.tag # "Err_Overflow"

C8_Stated == [][C8_Step_Stated]_vars

\* C8, amended: append returns Overflow only when its input is longer than
\* 2N - writeIndex, the room left in the active slot plus one whole slot.
C8_Step ==
  (op' = "append" /\ ret'.tag = "Err_Overflow")
    => Len(arg') > 2 * N - active_index

C8_OverflowOnlyBeyondRoom == [][C8_Step]_vars

\* an append of fewer than 2N elements that used up all the room there was
C8_Witness ==
  /\ op = "append" /\ ret.tag = "Ok_Full"
  /\ Len(arg) > N /\ Len(arg) < 2 * N
  /\ active_index = N

\* C9: when append returns Overflow the swap is complete: the reserve is
\* full, the selector is flipped, the new reserve holds the elements the
\* active slot held below the write index followed by the input elements
\* that filled it, and a read that follows returns that batch.
C9_Step ==
  /\ (op' = "append" /\ ret'.tag = "Err_Overflow") =>
       /\ reserve_capacity' = "Full"
       /\ active_buffer' # active_buffer
       /\ Reserve' = SubSeq(Active, 1, active_index)
                       \o SubSeq(arg', 1, N - active_index)
  /\ (op = "append" /\ ret.tag = "Err_Overflow" /\ op' = "read") =>
       /\ ret'.tag = "Some"
       /\ ret'.data = Reserve /\ ret'.data = batch

C9_OverflowAfterSwap == [][C9_Step]_vars

\* an overflowing append made while slot B was the active one
C9_Witness ==
  /\ op = "append" /\ ret.tag = "Err_Overflow"
  /\ active_buffer = "A" /\ reserve_capacity = "Full"
  /\ buffer_b = batch

\* C10 as stated: on Overflow every one of the first 2N input elements is in
\* the buffer, the first N in the reserve and the next N in the active slot.
C10_Step_Stated ==
  (op' = "append" /\ ret'.tag = "Err_Overflow") =>
    \A i \in 1..Min(Len(arg'), 2 * N) :
      IF i <= N THEN Reserve'[i] = arg'[i]
                ELSE active_index' >= i - N /\ Active'[i - N] = arg'[i]

C10_Stated == [][C10_Step_Stated]_vars

\* C10, amended: on Overflow only the first N - writeIndex input elements
\* are placed, completing the new reserve; all later input elements, those
\* within the first 2N too, are dropped: the new active slot keeps its
\* contents and the write index is 0.
C10_Step ==
  (op' = "append" /\ ret'.tag = "Err_Overflow") =>
    /\ Reserve' = SubSeq(Active, 1, active_index)
                    \o SubSeq(arg', 1, N - active_index)
    /\ Active' = Reserve
    /\ active_index' = 0
    /\ written' = <<>>

C10_OverflowDropsRemainder == [][C10_Step]_vars

\* an overflowing append onto a partly written slot: not even the first N
\* input elements are the reserve
C10_Witness ==
  /\ op = "append" /\ ret.tag = "Err_Overflow"
  /\ active_index = 0 /\ written = <<>>
  /\ Reserve # SubSeq(arg, 1, N)
  /\ Reserve = batch

\* C11: flush returns the write index as count and, in the first count
\* positions, the elements written into the active slot since the last swap
\* or flush; afterwards the write index is 0 and the reserve slot, the
\* reserve flag and the selector are as before.
C11_Step ==
  op' = "flush" =>
    /\ ret'.tag = "Flushed"
    /\ ret'.count = active_index
    /\ Len(ret'.data) = N
    /\ SubSeq(ret'.data, 1, ret'.count) = written
    /\ SubSeq(ret'.data, 1, ret'.count) = SubSeq(Active, 1, active_index)
    /\ active_index' = 0
    /\ Reserve' = Reserve
    /\ reserve_capacity' = reserve_capacity
    /\ active_buffer' = active_buffer

C11_Flush == [][C11_Step]_vars

\* a flush of a partly written slot made while a batch waits in the reserve
C11_Witness ==
  /\ op = "flush" /\ ret.count > 0 /\ ret.count < N
  /\ \A i \in 1..ret.count : ret.data[i] \in Values
  /\ active_index = 0
  /\ reserve_capacity = "Full" /\ Reserve = batch

\* C12: every position from count on of the array flush returns holds the
\* default value, also where the active slot still holds elements of an
\* earlier batch.
C12_Step ==
  op' = "flush" =>
    \A i \in (active_index + 1)..N : ret'.data[i] = DefaultT

C12_FlushPadsWithDefault == [][C12_Step]_vars

\* a flush of a slot that holds a stale element right after the prefix
C12_Witness ==
  /\ op = "flush" /\ ret.count < N
  /\ Active[ret.count + 1] \in Values
  /\ ret.data[ret.count + 1] = DefaultT

\* C18: an append of fewer elements than the active slot has room for
\* returns Ok(NotFull), advances the write index by the input length and
\* leaves selector, reserve flag and reserve slot alone; and whenever append
\* returns Ok(NotFull) the write index is below N afterwards.
C18_Step ==
  /\ (op' = "append" /\ Len(arg') < N - active_index) =>
       /\ ret'.tag = "Ok_NotFull"
       /\ active_index' = active_index + Len(arg')
       /\ active_buffer' = active_buffer
       /\ reserve_capacity' = reserve_capacity
       /\ Reserve' = Reserve
  /\ (op' = "append" /\ ret'.tag = "Ok_NotFull") => active_index' < N

C18_NoSwapBelowCapacity == [][C18_Step]_vars

\* a non-empty append that stayed below the capacity of the active slot
C18_Witness ==
  /\ op = "append" /\ ret.tag = "Ok_NotFull"
  /\ Len(arg) > 0 /\ active_index = Len(arg) /\ active_index < N
  /\ written = arg

\* C19: whenever append or push returns Ok, the whole input is in the
\* buffer in order: behind the earlier elements of the active slot, or, after
\* a swap, at the end of the new reserve and the start of the new active slot.
C19_Step ==
  /\ (IsWrite(op') /\ ret'.tag = "Ok_NotFull") =>
       /\ active_index' = active_index + Len(arg')
       /\ SubSeq(Active', active_index + 1, active_index') = arg'
  /\ (IsWrite(op') /\ ret'.tag = "Ok_Full") =>
       /\ (N - active_index) + active_index' = Len(arg')
       /\ SubSeq(Reserve', active_index + 1, N)
            \o SubSeq(Active', 1, active_index') = arg'

C19_OkStoresAll == [][C19_Step]_vars

\* an append that was split over the two slots of a partly written buffer
C19_Witness ==
  /\ op = "append" /\ ret.tag = "Ok_Full"
  /\ active_index > 0 /\ Len(arg) > active_index
  /\ Len(arg) < N + active_index
  /\ written = SubSeq(arg, Len(arg) - active_index + 1, Len(arg))

\* C13: after clear every field has the value construction gives it, so
\* the queries and every following call answer as on a new instance.
C13_Step ==
  op' = "clear" =>
    /\ Self' = Constructed
    /\ position(Self') = 0 /\ is_empty(Self') /\ ~is_reserve_full(Self')
    /\ is_half_full(Self') = is_half_full(Constructed)
    /\ \A data \in Inputs : append(Self', data) = append(Constructed, data)
    /\ read(Self') = read(Constructed)
    /\ flush(Self') = flush(Constructed)

C13_ClearIsConstructed == [][C13_Step]_vars

\* the state a clear call leaves
C13_Witness ==
  /\ op = "clear"
  /\ buffer_a = DefaultArray /\ buffer_b = DefaultArray
  /\ active_index = 0 /\ active_buffer = "A"
  /\ reserve_capacity = "NotFull"

\* C14: from a new buffer, when the append and push calls made so far have
\* passed exactly N elements, exactly one of them returned Ok(Full), the one
\* that wrote the N-th element, the reserve is full and the write index is 0.
C14_State ==
  /\ (appended >= 0 /\ appended < N) => fulls = 0
  /\ appended = N =>
       /\ fulls = 1
       /\ reserve_capacity = "Full"
       /\ active_index = 0

C14_Step ==
  /\ (appended >= 0 /\ appended < N /\ appended' = N) => ret'.tag = "Ok_Full"
  /\ (appended >= 0 /\ appended' >= 0 /\ appended' < N)
       => ret'.tag = "Ok_NotFull"
  /\ (appended = N /\ appended' = N) => ret'.tag = "Ok_NotFull"

C14_OneFullAtN == []C14_State /\ [][C14_Step]_vars

\* N elements passed one at a time: the last push returned Ok(Full)
C14_Witness ==
  /\ appended = N /\ fulls = 1
  /\ op = "push" /\ ret.tag = "Ok_Full"
  /\ reserve_capacity = "Full" /\ active_index = 0

\* C15: after an append failed with ReserveFull and read was called next,
\* an append of at most N elements that follows swaps the slots, returns
\* Ok(Full) and has its whole input at the start of the new active slot.
C15_Step ==
  (retry = "drained" /\ op' = "append" /\ Len(arg') <= N) =>
    /\ ret'.tag = "Ok_Full"
    /\ active_buffer' # active_buffer
    /\ reserve_capacity' = "Full"
    /\ Reserve' = Active
    /\ active_index' = Len(arg')
    /\ SubSeq(Active', 1, Len(arg')) = arg'

C15_RetryAfterRead == [][C15_Step]_vars

\* a non-empty append that found the active slot full and the reserve read
C15_Witness ==
  /\ op = "append" /\ ret.tag = "Ok_Full"
  /\ Len(arg) > 0 /\ Len(arg) <= N
  /\ active_index = Len(arg) /\ written = arg
  /\ retry = "none"

\* C16: one append call changes the selector at most once, whatever the
\* input length and the state; the selector differs after the call exactly
\* when it was changed once.
C16_Step ==
  op' = "append" =>
    /\ toggles' <= 1
    /\ toggles' = 1 <=> active_buffer' # active_buffer

C16_AtMostOneToggle == [][C16_Step]_vars

\* an append of the longest input that swapped the slots once
C16_Witness ==
  /\ op = "append" /\ Len(arg) = MaxLen
  /\ toggles = 1 /\ active_buffer = "B"

\* C17: from every reachable state and for every input, each call ends with
\* a result: append and push with Ok or one of Overflow and ReserveFull, and
\* the slice accesses of append and flush stay within the slots.
C17_Step ==
  /\ IsWrite(op') =>
       /\ appendInBounds(Self, arg')
       /\ ret'.tag \in {"Ok_Full", "Ok_NotFull",
                        "Err_Overflow", "Err_ReserveFull"}
  /\ op' = "flush" =>
       /\ flushInBounds(Self)
       /\ ret'.tag = "Flushed" /\ ret'.count <= N
  /\ op' = "read" => ret'.tag \in {"Some", "None"}
  /\ op' = "clear" => ret'.tag = "Unit"

C17_NoOtherFailure == [][C17_Step]_vars

\* the state after a ReserveFull: the write index is N, the next append has
\* no room at all
C17_Witness ==
  /\ IsWrite(op) /\ ret.tag = "Err_ReserveFull"
  /\ active_index = N /\ reserve_capacity = "Full"
  /\ Transferred(Self, <<1>>) = 0

\* C20: when clear is not called and flush is called only while the reserve
\* is not full, every read and flush hands out the oldest elements not yet
\* handed out, and what is left is the unread batch followed by the written
\* part of the active slot: nothing stored is lost, repeated or reordered.
C20_State ==
  queue = (IF reserve_capacity = "Full" THEN Reserve ELSE <<>>)
            \o SubSeq(Active, 1, active_index)

C20_Step ==
  /\ (op' = "read" /\ ret'.tag = "Some") =>
       /\ ret'.data = SubSeq(queue, 1, N)
       /\ queue' = Drop(queue, N)
  /\ (op' = "read" /\ ret'.tag = "None") => queue' = queue
  /\ op' = "flush" =>
       /\ SubSeq(ret'.data, 1, ret'.count) = SubSeq(queue, 1, ret'.count)
       /\ queue' = Drop(queue, ret'.count)
  /\ IsWrite(op') => queue' = queue \o appendStored(Self, arg', [ret |-> ret'])

C20_InOrder == []C20_State /\ [][C20_Step]_vars

\* a batch was read and the rest was flushed: everything stored is out
C20_Witness ==
  /\ op = "flush" /\ ret.count > 0
  /\ Len(batch) = N /\ reserve_capacity = "NotFull"
  /\ queue = <<>>

TypeOK ==
  /\ active_buffer \in {"A", "B"}
  /\ reserve_capacity \in {"Full", "NotFull"}
  /\ Len(buffer_a) = N /\ Len(buffer_b) = N
====
